---- MODULE Spec2Model ----
(***************************************************************************)
(* A model of the Slack assistant of gitethanwoo/ai-sdk-slackbot: the      *)
(* reply formatters (section blocks, split messages), the orchestration    *)
(* loop of generateResponse with its tool registry, the status reporters   *)
(* and the per-request tool wrapping.                                      *)
(*                                                                         *)
(* Texts are sequences of one-character strings.  String indices in the    *)
(* helper operators are 0-based, as in the TypeScript source.              *)
(*                                                                         *)
(* The module holds several specifications over one set of variables:      *)
(*   Spec        one inbound event: handler, generateResponse, tool calls  *)
(*   SpecChunk   the formatters applied to every reply text (bounded)      *)
(*   SpecAgent   one call of canvasEditorAgent, with fair scheduling        *)
(*   SpecStatus  the status calls of one request on their way to Slack     *)
(*   SpecWrap    two requests wrapping and calling the shared tools        *)
(*   SpecDedup   deduplicateByDomainAndUrl applied to every short list     *)
(*   SpecSearch  jinaSearch: its phases and its two fan-outs               *)
(*   SpecRetry   withRetry for every behaviour of the function it calls    *)
(* Each specification leaves the variables of the other parts at their     *)
(* idle values.                                                            *)
(***************************************************************************)
EXTENDS Integers, Sequences, FiniteSets, TLC

VARIABLES
    \* ---- reply formatting (handleNewAssistantMessage, sendSplitMessages)
    result,         \* the text generateResponse returned
    formatter,      \* "blocks": unnamed/part_005, "messages": lib/handle-messages.ts
    fpc,            \* position in the handler's delivery code
    messageText,    \* part_005: the (possibly truncated) text
    i,              \* part_005: the loop index of the block loop
    blocks,         \* part_005: the section blocks built so far
    remainingText,  \* splitTextIntoChunks: the text still to split
    chunks,         \* splitTextIntoChunks: the chunks pushed so far
    sent,           \* the messages posted: [text, blocks]
    pending,        \* sendSplitMessages: the chunks whose post is under way
    cleared,        \* whether the handler has called updateStatus("")
    \* ---- one inbound event (handlers, generateResponse, tools)
    caller,         \* who calls generateResponse: "mention", "assistant", "direct"
    event,          \* the inbound event: "user" (in a thread), "no_thread", "bot_id", "bot_profile"
    variant,        \* "wrapped": lib/generate-response.ts, "enhanced": unnamed/part_002
    updateStatus,   \* the reporter: "absent", "working", "throwing", "rejecting"
    hpc,            \* position in the handler
    gpc,            \* position in generateResponse
    stepCount,      \* LLM steps run by generateText
    text,           \* the text of the latest step
    stepCalls,      \* tool calls the latest step requested
    callsLeft,      \* of those, the calls not yet returned
    stepResults,    \* tool results of the latest step
    error,          \* what failed: "none", "llm", "reporter", "thread"
    returned,       \* the value generateResponse returned
    frames,         \* the stack of running tool executes: [tool, pc, resp]
    nestedSteps,    \* steps run by the canvas editor's nested session
    toolResult,     \* the value the latest registry tool's execute returned
    lastStatus,     \* the latest status text handed to the reporter
    posted,         \* what the handler posted to the thread
    reply,          \* the reply message of handleNewAssistantMessage: [text, blocks]
    \* ---- the status calls of one request (updateMessage, setStatus)
    reporter,       \* "updateMessage": handle-app-mention.ts, "setStatus": slack-utils.ts
    emitted,        \* statuses emitted so far; they are numbered in emission order
    phase,          \* per status: "none", "flying", "sleeping", "delivered", "dropped"
    attempt,        \* per status: the attempt of withRetry under way
    shown,          \* the statuses Slack displayed, in the order it displayed them
    \* ---- two requests and the tool map (wrappedTools, enhancedTools)
    registry,       \* the exported tools map: tool -> its execute
    hasReporter,    \* per request: whether it was given an updateStatus
    rpc,            \* per request: "idle", "ready", "done"
    own,            \* per request: the tool map it built for its generateText
    log,            \* per reporter: the requests whose tool calls reported to it
    runs,           \* per request: generateResponse calls begun
    \* ---- deduplicateByDomainAndUrl
    items,          \* the list handed to the function
    deduped,        \* what it returned
    again,          \* what it returned when applied to its own result
    dpc,            \* "start", "once", "twice"
    \* ---- jinaSearch (lib/tools.ts:100-400)
    responses,      \* per sub-query: what Jina's search API does for it
    finished,       \* the sub-queries whose promise has settled
    notes,          \* per sub-query: the value its promise resolved to
    allSearchResults, \* the aggregated list
    spc,            \* position in execute: "start" ... "returned"
    searchResult,   \* what execute returned
    searchReporter, \* options.updateStatus: "absent", "working", "throwing"
    searchLog,      \* the status calls made and the remote calls issued, in order
    selectedIndices, \* the 0-based indices the selection returned
    contents,       \* per selected index: the state of its content callback
    resultsWithContent, \* the results of the returned value
    \* ---- withRetry (lib/handle-app-mention.ts:6-27)
    wArgs,          \* the arguments: [maxRetries, delay]
    wAttempt,       \* the loop variable attempt
    wDelay,         \* the variable delay
    wLastError,     \* the variable lastError
    wCalls,         \* what the calls of fn did, in order
    wWaits,         \* the delays waited, in order
    wpc,            \* "loop", "wait", "returned", "thrown"
    wResult         \* the value returned or the error thrown

varsChunk == <<result, formatter, fpc, messageText, i, blocks,
               remainingText, chunks, sent, pending, cleared>>

varsOrch == <<caller, event, variant, updateStatus, hpc, gpc, stepCount, text,
              stepCalls, callsLeft, stepResults, error, returned, frames,
              nestedSteps, toolResult, lastStatus, posted, reply>>

varsStatus == <<reporter, emitted, phase, attempt, shown>>

varsWrap == <<registry, hasReporter, rpc, own, log, runs>>

varsDedup == <<items, deduped, again, dpc>>

varsSearch == <<responses, finished, notes, allSearchResults, spc,
                searchResult, searchReporter, searchLog, selectedIndices,
                contents, resultsWithContent>>

varsRetry == <<wArgs, wAttempt, wDelay, wLastError, wCalls, wWaits, wpc,
               wResult>>

vars == <<varsChunk, varsOrch, varsStatus, varsWrap, varsDedup, varsSearch,
          varsRetry>>

\* what the actions of each specification leave alone
othersChunk  == <<varsOrch, varsStatus, varsWrap, varsDedup, varsSearch,
                 varsRetry>>
othersOrch   == <<varsChunk, varsStatus, varsWrap, varsDedup, varsSearch,
                 varsRetry>>
othersStatus == <<varsChunk, varsOrch, varsWrap, varsDedup, varsSearch,
                 varsRetry>>
othersWrap   == <<varsChunk, varsOrch, varsStatus, varsDedup, varsSearch,
                 varsRetry>>
othersDedup  == <<varsChunk, varsOrch, varsStatus, varsWrap, varsSearch,
                 varsRetry>>
othersSearch == <<varsChunk, varsOrch, varsStatus, varsWrap, varsDedup,
                 varsRetry>>
othersRetry  == <<varsChunk, varsOrch, varsStatus, varsWrap, varsDedup,
                 varsSearch>>

\* the idle values of each part
IdleChunk ==
    /\ result = <<>> /\ formatter = "none" /\ fpc = "idle"
    /\ messageText = <<>> /\ i = 0 /\ blocks = <<>>
    /\ remainingText = <<>> /\ chunks = <<>> /\ sent = <<>>
    /\ pending = {} /\ cleared = FALSE

NoResult == [kind |-> "none", error |-> ""]

NoMessage == [text |-> <<>>, blocks |-> <<>>]

IdleOrch ==
    /\ caller = "none" /\ event = "none" /\ variant = "none"
    /\ updateStatus = "absent" /\ hpc = "idle" /\ gpc = "idle"
    /\ stepCount = 0 /\ text = <<>> /\ stepCalls = 0 /\ callsLeft = 0
    /\ stepResults = 0 /\ error = "none" /\ returned = <<>>
    /\ frames = <<>> /\ nestedSteps = 0 /\ toolResult = NoResult
    /\ lastStatus = "" /\ posted = {} /\ reply = NoMessage

IdleStatus ==
    /\ reporter = "none" /\ emitted = 0 /\ phase = <<>> /\ attempt = <<>>
    /\ shown = <<>>

IdleWrap ==
    /\ registry = <<>> /\ hasReporter = <<>> /\ rpc = <<>> /\ own = <<>>
    /\ log = <<>> /\ runs = <<>>

IdleDedup ==
    /\ items = <<>> /\ deduped = <<>> /\ again = <<>> /\ dpc = "idle"

IdleSearch ==
    /\ responses = <<>> /\ finished = {} /\ notes = <<>>
    /\ allSearchResults = <<>> /\ spc = "idle" /\ searchResult = NoResult
    /\ searchReporter = "none" /\ searchLog = <<>> /\ selectedIndices = <<>>
    /\ contents = <<>> /\ resultsWithContent = <<>>

NoOutcome == [kind |-> "none", id |-> 0]

IdleRetry ==
    /\ wArgs = <<>> /\ wAttempt = 0 /\ wDelay = 0 /\ wLastError = NoOutcome
    /\ wCalls = <<>> /\ wWaits = <<>> /\ wpc = "idle" /\ wResult = NoOutcome

(***************************************************************************)
(* Bounds.  The limits of the source (3000, 40000, 100) are scaled down so *)
(* that every text up to MaxLen characters can be enumerated; the order    *)
(* between them is the source's (margin < block limit < total limit ...).  *)
(***************************************************************************)
\* the longest reply text enumerated
MaxLen == 7
\* handle-messages.ts SLACK_CHAR_LIMIT (3000 in the source), scaled
SLACK_CHAR_LIMIT == 6
\* part_005 SECTION_BLOCK_LIMIT (3000 in the source), scaled
SECTION_BLOCK_LIMIT == 5
\* part_005 SLACK_TEXT_LIMIT (40000 in the source), scaled
SLACK_TEXT_LIMIT == 6
\* part_005: the 100 characters cut below the total limit, scaled
TruncationMargin == 2

\* a letter, a space, a newline, a sentence end
Chars == {"a", " ", "\n", "."}

\* part_005's fixed truncation notice, shorter than the margin as in the source
TruncationNotice == <<"#">>

Min(a, b) == IF a <= b THEN a ELSE b
Max(a, b) == IF a >= b THEN a ELSE b

RECURSIVE SeqsUpTo(_)
SeqsUpTo(n) ==
    IF n = 0 THEN {<<>>}
    ELSE LET shorter == SeqsUpTo(n - 1)
         IN  shorter \cup {Append(s, c) : s \in {t \in shorter : Len(t) = n - 1}, c \in Chars}

Texts == SeqsUpTo(MaxLen)

(***************************************************************************)
(* JavaScript string operations, 0-based.                                  *)
(***************************************************************************)
\* String.prototype.substring(a, b): both ends clamped to [0, length]
substring(s, a, b) ==
    LET lo == Max(0, Min(a, Len(s)))
        hi == Max(0, Min(b, Len(s)))
    IN  SubSeq(s, Min(lo, hi) + 1, Max(lo, hi))

IsWhitespace(c) == c \in {" ", "\n"}

\* String.prototype.trim(): leading and trailing whitespace removed
trim(s) ==
    LET keep == {k \in 1..Len(s) : ~IsWhitespace(s[k])}
    IN  IF keep = {} THEN <<>>
        ELSE SubSeq(s, CHOOSE k \in keep : \A j \in keep : k <= j,
                       CHOOSE k \in keep : \A j \in keep : j <= k)

\* String.prototype.lastIndexOf(pat, from): the last index <= from where pat
\* starts, -1 when there is none
lastIndexOf(s, pat, from) ==
    LET at == {k \in 0..Min(from, Len(s) - Len(pat)) :
                   SubSeq(s, k + 1, k + Len(pat)) = pat}
    IN  IF at = {} THEN -1 ELSE CHOOSE k \in at : \A j \in at : j <= k

\* text[k]: the character at index k, "undefined" past the end
charAt(s, k) == IF k >= 0 /\ k < Len(s) THEN s[k + 1] ELSE "undefined"

RECURSIVE Concat(_)
Concat(ss) == IF ss = <<>> THEN <<>> ELSE Head(ss) \o Concat(Tail(ss))

(***************************************************************************)
(* lib/handle-messages.ts: findBreakPoint and splitTextIntoChunks          *)
(***************************************************************************)
\* the sentence-break loop of findBreakPoint: indices limit..1 whose character
\* ends a sentence and is followed by the end, a space or a newline
SentenceBreaks(s, limit) ==
    {k \in 1..limit :
        /\ charAt(s, k) \in {".", "!", "?"}
        /\ (k = Len(s) - 1 \/ charAt(s, k + 1) = " " \/ charAt(s, k + 1) = "\n")}

\* (mutant of findBreakPoint: without a natural break point nothing is cut)
findBreakPoint_NoFallback(s, limit) ==
    LET lastParagraphBreak == lastIndexOf(s, <<"\n", "\n">>, limit)
        lastNewline        == lastIndexOf(s, <<"\n">>, limit)
        sentences          == SentenceBreaks(s, limit)
        lastSpace          == lastIndexOf(s, <<" ">>, limit)
    IN  IF Len(s) <= limit THEN Len(s)
        ELSE IF lastParagraphBreak > 0 THEN lastParagraphBreak + 2
        ELSE IF lastNewline > 0 THEN lastNewline + 1
        ELSE IF sentences # {} THEN (CHOOSE k \in sentences : \A j \in sentences : j <= k) + 1
        ELSE IF lastSpace > 0 THEN lastSpace + 1
        ELSE 0

findBreakPoint(s, limit) ==
    LET lastParagraphBreak == lastIndexOf(s, <<"\n", "\n">>, limit)
        lastNewline        == lastIndexOf(s, <<"\n">>, limit)
        sentences          == SentenceBreaks(s, limit)
        lastSpace          == lastIndexOf(s, <<" ">>, limit)
    IN  IF Len(s) <= limit THEN Len(s)
        ELSE IF lastParagraphBreak > 0 THEN lastParagraphBreak + 2
        ELSE IF lastNewline > 0 THEN lastNewline + 1
        ELSE IF sentences # {} THEN (CHOOSE k \in sentences : \A j \in sentences : j <= k) + 1
        ELSE IF lastSpace > 0 THEN lastSpace + 1
        ELSE limit

\* the chunk one loop iteration pushes, and the text it leaves
ChunkOf(s, maxChunkSize) == trim(substring(s, 0, findBreakPoint(s, maxChunkSize)))
\* (mutant of RestOf: the rest starts one character after the break point)
RestOf_SkipsOne(s, maxChunkSize) ==
    trim(substring(s, findBreakPoint(s, maxChunkSize) + 1, Len(s)))
RestOf(s, maxChunkSize)  == trim(substring(s, findBreakPoint(s, maxChunkSize), Len(s)))

(***************************************************************************)
(* unnamed/part_005: truncation and the block loop                         *)
(***************************************************************************)
\* (mutant of Truncated: the cut is made at the limit, without the margin)
Truncated_AtLimit(s) ==
    IF Len(s) > SLACK_TEXT_LIMIT
    THEN substring(s, 0, SLACK_TEXT_LIMIT) \o TruncationNotice
    ELSE s
Truncated(s) ==
    IF Len(s) > SLACK_TEXT_LIMIT
    THEN substring(s, 0, SLACK_TEXT_LIMIT - TruncationMargin) \o TruncationNotice
    ELSE s

BlockAt(s, k) == substring(s, k, k + SECTION_BLOCK_LIMIT)

Message(t, bs) == [text |-> t, blocks |-> bs]

\* handle-messages.ts:192 the prefix of chunk number k (1-based) of n
Digits == <<"1", "2", "3", "4", "5", "6", "7", "8", "9">>
ContinuedPrefix(k, n) ==
    IF k = 1 THEN <<>> ELSE <<"(", Digits[Min(k, 9)], "/", Digits[Min(n, 9)], ")">>

(***************************************************************************)
(* SpecChunk: the delivery code of handleNewAssistantMessage, once         *)
(* generateResponse has returned `result'.                                 *)
(***************************************************************************)
InitChunk ==
    /\ result \in Texts
    /\ formatter \in {"blocks", "messages"}
    /\ fpc = "start"
    /\ messageText = <<>>
    /\ i = 0
    /\ blocks = <<>>
    /\ remainingText = <<>>
    /\ chunks = <<>>
    /\ sent = <<>>
    /\ pending = {}
    /\ cleared = FALSE
    /\ IdleOrch
    /\ IdleStatus
    /\ IdleWrap
    /\ IdleDedup
    /\ IdleSearch
    /\ IdleRetry

\* part_005:64-68 messageText, truncated when the reply exceeds the total limit
Truncate ==
    /\ formatter = "blocks" /\ fpc = "start"
    /\ messageText' = Truncated(result)
    /\ i' = 0
    /\ blocks' = <<>>
    /\ fpc' = "loop"
    /\ UNCHANGED <<othersChunk, cleared, pending, result, formatter, remainingText, chunks, sent>>

\* part_005:75-84 one iteration of the block loop
BuildBlock ==
    /\ formatter = "blocks" /\ fpc = "loop"
    /\ i < Len(messageText)
    /\ blocks' = Append(blocks, BlockAt(messageText, i))
    /\ i' = i + SECTION_BLOCK_LIMIT
    /\ UNCHANGED <<othersChunk, cleared, pending, result, formatter, fpc, messageText, remainingText, chunks, sent>>

\* part_005:86-92 the loop is over: one post with the fallback text and the blocks
PostBlocks ==
    /\ formatter = "blocks" /\ fpc = "loop"
    /\ i >= Len(messageText)
    /\ sent' = Append(sent, Message(messageText, blocks))
    /\ fpc' = "done"
    /\ UNCHANGED <<othersChunk, cleared, pending, result, formatter, messageText, i, blocks, remainingText, chunks>>

\* handle-messages.ts:152-167 a reply within the limit is one message, one block
SendSingle ==
    /\ formatter = "messages" /\ fpc = "start"
    /\ Len(result) <= SLACK_CHAR_LIMIT
    /\ sent' = Append(sent, Message(result, <<result>>))
    /\ fpc' = "done"
    /\ UNCHANGED <<othersChunk, cleared, pending, result, formatter, messageText, i, blocks, remainingText, chunks>>

\* handle-messages.ts:168-171, 180-184, 216-218 a longer reply goes to
\* sendSplitMessages, which starts splitTextIntoChunks
SplitStart ==
    /\ formatter = "messages" /\ fpc = "start"
    /\ Len(result) > SLACK_CHAR_LIMIT
    /\ remainingText' = result
    /\ chunks' = <<>>
    /\ fpc' = "split"
    /\ UNCHANGED <<othersChunk, cleared, pending, result, formatter, messageText, i, blocks, sent>>

\* handle-messages.ts:220-234 one iteration of the while loop
SplitIterate ==
    /\ formatter = "messages" /\ fpc = "split"
    /\ Len(remainingText) > 0
    /\ IF Len(remainingText) <= SLACK_CHAR_LIMIT
       THEN /\ chunks' = Append(chunks, remainingText)
            /\ fpc' = "send"
            /\ UNCHANGED remainingText
       ELSE /\ chunks' = Append(chunks, ChunkOf(remainingText, SLACK_CHAR_LIMIT))
            /\ remainingText' = RestOf(remainingText, SLACK_CHAR_LIMIT)
            /\ UNCHANGED fpc
    /\ UNCHANGED <<othersChunk, cleared, pending, result, formatter, messageText, i, blocks, sent>>

\* handle-messages.ts:220, 236 the loop condition fails: return chunks
SplitReturn ==
    /\ formatter = "messages" /\ fpc = "split"
    /\ Len(remainingText) = 0
    /\ fpc' = "send"
    /\ UNCHANGED <<othersChunk, cleared, pending, result, formatter, messageText, i, blocks, remainingText, chunks, sent>>

\* (mutant of MaySend: the post is not awaited)
MaySend_NoAwait(p) == TRUE
\* await client.chat.postMessage(...), handle-messages.ts:194: the loop goes
\* on only when no post is under way
MaySend(p) == p = {}

\* handle-messages.ts:189-194 one iteration of the posting loop calls
\* postMessage for chunk i
SendChunk ==
    /\ formatter = "messages" /\ fpc = "send"
    /\ i < Len(chunks)
    /\ MaySend(pending)
    /\ pending' = pending \cup {i + 1}
    /\ i' = i + 1
    /\ UNCHANGED <<othersChunk, cleared, result, formatter, fpc, messageText, blocks,
                   remainingText, chunks, sent>>

\* handle-messages.ts:194-208 Slack takes a post under way: the message is
\* in the thread.  The answer reaches the program in a later turn of the
\* event loop than the call, so the handler's next statement has run.
PostComplete ==
    /\ formatter = "messages" /\ fpc = "send"
    /\ cleared
    /\ \E k \in pending :
          /\ LET body == ContinuedPrefix(k, Len(chunks)) \o chunks[k]
             IN  sent' = Append(sent, Message(body, <<body>>))
          /\ pending' = pending \ {k}
    /\ UNCHANGED <<othersChunk, cleared, result, formatter, fpc, messageText, i, blocks,
                   remainingText, chunks>>

\* handle-messages.ts:194 a post under way rejects: the await throws and
\* sendSplitMessages ends with the remaining chunks unsent
PostFail ==
    /\ formatter = "messages" /\ fpc = "send"
    /\ cleared
    /\ \E k \in pending :
          pending' = pending \ {k}
    /\ fpc' = "failed"
    /\ UNCHANGED <<othersChunk, cleared, result, formatter, messageText, i, blocks,
                   remainingText, chunks, sent>>

\* handle-messages.ts:189, 210 every chunk is posted
SendDone ==
    /\ formatter = "messages" /\ fpc = "send"
    /\ i >= Len(chunks)
    /\ MaySend(pending)
    /\ fpc' = "done"
    /\ UNCHANGED <<othersChunk, cleared, pending, result, formatter, messageText, i,
                   blocks, remainingText, chunks, sent>>

\* updateStatus(""), handle-messages.ts:174 and part_005:94: the handler gets
\* there when its awaited post has returned (part_005:86, handle-messages.ts
\* :152), or, on the split path, as soon as the call of sendSplitMessages
\* (:170, not awaited) has come to its first await with the first post
\* under way
ClearStatus ==
    /\ ~cleared
    /\ \/ fpc = "done"
       \/ fpc = "send" /\ pending # {}
    /\ cleared' = TRUE
    /\ UNCHANGED <<othersChunk, pending, result, formatter, fpc, messageText,
                   i, blocks, remainingText, chunks, sent>>

NextChunk ==
    \/ Truncate
    \/ BuildBlock
    \/ PostBlocks
    \/ SendSingle
    \/ SplitStart
    \/ SplitIterate
    \/ SplitReturn
    \/ SendChunk
    \/ PostComplete
    \/ PostFail
    \/ SendDone
    \/ ClearStatus

SpecChunk == InitChunk /\ [][NextChunk]_vars

(***************************************************************************)
(* lib/tools.ts: the tool registry.  Every execute is a try block with one *)
(* catch; its body is written here as a straight-line program of the       *)
(* steps that can fail or report.                                          *)
(***************************************************************************)
\* tools.ts:965-974
Tools == {"webScrape", "quickSearch", "deepResearch", "listCanvases",
          "createCanvas", "canvasRead", "canvasEditorAgent"}

\* (mutant of InternalTools: the session is also handed canvasRead)
InternalTools_WithRead == {"sectionLookup", "makeEdits", "canvasRead"}
\* tools.ts:775-784 the two tools of the canvas editor's nested session
InternalTools == {"sectionLookup", "makeEdits"}

\* what a remote call can do: answer well, throw (network fault), answer with
\* a non-success HTTP status, answer with a body that reports failure (code
\* other than 200, ok false), answer with a body that does not parse or
\* lacks the expected fields
Outcomes == {"ok", "throws", "httpFail", "bodyFail", "malformed"}

Instr(op, arg) == [op |-> op, arg |-> arg]

Program(t) ==
    CASE t = "webScrape" ->           \* tools.ts:37-96
           <<Instr("cred", "JINA_API_KEY"),
             Instr("status", "is fetching webpage content..."),
             Instr("fetch", "checked"),
             Instr("status", "is processing webpage data..."),
             Instr("parse", "json"),
             Instr("return", "")>>
      [] t = "quickSearch" ->         \* tools.ts:406-430
           <<Instr("status", "is performing a quick search on your query..."),
             Instr("sdk", "gemini-2.0-flash"),
             Instr("status", "has completed the search!"),
             Instr("return", "")>>
      [] t = "deepResearch" ->        \* tools.ts:441-494
           <<Instr("cred", "PERPLEXITY_API_KEY"),
             Instr("status", "is starting deep research..."),
             Instr("sdk", "sonar-deep-research"),
             Instr("status", "is wrapping up deep research..."),
             Instr("return", "")>>
      [] t = "listCanvases" ->        \* tools.ts:503-538
           <<Instr("cred", "SLACK_BOT_TOKEN"),
             Instr("fetch", "unchecked"),
             Instr("parse", "json"),
             Instr("return", "")>>
      [] t = "createCanvas" ->        \* tools.ts:550-632
           <<Instr("ctx", ""),
             Instr("cred", "SLACK_BOT_TOKEN"),
             Instr("fetch", "unchecked"),
             Instr("parse", "create"),
             Instr("fetch", "unchecked"),
             Instr("parse", "json"),
             Instr("return", "")>>
      [] t = "sectionLookup" ->       \* tools.ts:644-686
           <<Instr("cred", "SLACK_BOT_TOKEN"),
             Instr("fetch", "unchecked"),
             Instr("parse", "sections"),
             Instr("return", "")>>
      [] t = "makeEdits" ->           \* tools.ts:705-742
           <<Instr("cred", "SLACK_BOT_TOKEN"),
             Instr("fetch", "unchecked"),
             Instr("parse", "json"),
             Instr("return", "")>>
      [] t = "canvasEditorAgent" ->   \* tools.ts:755-883
           <<Instr("status", "is reading current canvas content..."),
             Instr("sub", "canvasRead"),
             Instr("subcheck", "Failed to read canvas"),
             Instr("status", "is analyzing your edit request..."),
             Instr("session", ""),
             Instr("return", "")>>
      [] t = "canvasRead" ->          \* tools.ts:894-960
           <<Instr("status", "is fetching canvas information..."),
             Instr("cred", "SLACK_BOT_TOKEN"),
             Instr("fetch", "unchecked"),
             Instr("parse", "json"),
             Instr("status", "is reading canvas content..."),
             Instr("fetch", "checked"),
             Instr("parse", "text"),
             Instr("return", "")>>

\* the section ids a lookup can return or a change can refer to
SectionIds == {"s1"}

\* a running execute; ids: for makeEdits the section ids its changes refer
\* to, for sectionLookup the ids it found, for canvasEditorAgent the ids
\* the lookups of its session have returned to the model so far; cred:
\* whether the credential the tool needs is in the environment of this
\* invocation; cause: the error of the tool it called
FrameWith(t, ids, cred) ==
    [tool |-> t, pc |-> 1, resp |-> "none", ids |-> ids, cred |-> cred,
     cause |-> ""]
Frame(t, cred) == FrameWith(t, {}, cred)

Top == frames[Len(frames)]
TopInstr == Program(Top.tool)[Top.pc]
Running(op) == gpc = "tool" /\ frames # <<>> /\ TopInstr.op = op

\* the frames with the top one advanced to its next instruction
Advanced(resp) ==
    [frames EXCEPT ![Len(frames)] = [@ EXCEPT !.pc = @ + 1, !.resp = resp]]

\* a success payload, and what the catch block of an execute returns
\* (tools.ts:91-95 and alike): the message in an error-shaped object
Success == [kind |-> "ok", error |-> ""]
\* (mutant of Catch: the fault is thrown on instead of returned)
Catch_Rethrows(msg) == [kind |-> "raised", error |-> msg]
Catch(msg) == [kind |-> "error", error |-> msg]

\* the maxSteps of the nested session, tools.ts:867
NestedMaxSteps == 8

\* the execute on top of the stack returns r: to generateText when it is a
\* registry tool, to canvasEditorAgent's body when that called it
Return(r) ==
    IF Len(frames) = 1
    THEN /\ frames' = <<>>
         /\ toolResult' = r
         /\ gpc' = "toolReturned"
         /\ nestedSteps' = 0
         /\ UNCHANGED error
    ELSE LET below == SubSeq(frames, 1, Len(frames) - 1)
             parent == below[Len(below)]
         IN  /\ frames' = IF Program(parent.tool)[parent.pc].op = "sub"
                          THEN [below EXCEPT ![Len(below)] =
                                    [@ EXCEPT !.pc = @ + 1, !.resp = r.kind,
                                              !.cause = r.error]]
                          ELSE [below EXCEPT ![Len(below)].ids =
                                    IF Top.tool = "sectionLookup"
                                       /\ r.kind = "ok"
                                    THEN @ \cup Top.ids ELSE @]
             /\ UNCHANGED <<toolResult, gpc, error, nestedSteps>>

\* a fault raised inside the try block of the running execute
Raise(msg) == Return(Catch(msg))

\* the reporter a tool finds in its options: part_002:30-37 passes it, the
\* wrapper of generate-response.ts:44 passes the SDK's options only
ToolHasReporter == variant = "enhanced" /\ updateStatus # "absent"

\* whether one call of the reporter throws into its caller: a rejected
\* promise of an async reporter is not awaited and never does
MayThrow == IF updateStatus = "throwing" THEN {TRUE, FALSE} ELSE {FALSE}

ReporterFault == "status reporter failed"

\* what the thread shows after a status call that did not throw: a reporter
\* whose promise rejects has shown nothing
Shown(status) == IF updateStatus = "rejecting" THEN lastStatus ELSE status

config == <<caller, event, variant, updateStatus>>

Advance(resp) ==
    /\ frames' = Advanced(resp)
    /\ UNCHANGED <<toolResult, gpc, error, nestedSteps>>

Call(t) ==
    /\ frames' = Append(frames, Frame(t, Top.cred))
    /\ UNCHANGED <<toolResult, gpc, error>>

toolRest == <<config, hpc, stepCount, text, stepCalls, callsLeft, stepResults,
              returned, posted, reply, othersOrch>>

MissingCredential == "environment variable is not set"
MissingApiKey == "API key is missing"

\* (mutant of CredentialFound: the check is left out)
CredentialFound_Unchecked(f) == TRUE
\* const apiKey = process.env.X; if (!apiKey) ..., tools.ts:42-43
CredentialFound(f) == f.cred

\* if (!apiKey) throw, tools.ts:42-45, 450-453, 505-508, 564-567, 646-649,
\* 707-710, 902-905
ExecCred ==
    /\ Running("cred")
    /\ IF CredentialFound(Top) THEN Advance(Top.resp)
       ELSE Raise(MissingCredential)
    /\ UNCHANGED <<toolRest, lastStatus>>

NoChannel == "no channel to create a canvas in"

\* the channel context a caller hands to generateResponse: the mention
\* handler passes its channel, which may be a direct-message channel
\* (handle-app-mention.ts:86-89, 102), the assistant handler passes none
\* (handle-messages.ts:58)
RequestContext(c) ==
    CASE c = "mention" -> {"channel", "dm"}
      [] c = "assistant" -> {"none"}
      [] OTHER -> {"channel", "dm", "none"}

\* the context a tool finds in its options: part_002:30-37 passes it along
\* with the reporter, generate-response.ts:5-8, 44 has no context at all
ToolHasContext == variant = "enhanced" /\ updateStatus # "absent"

\* createCanvas reads options.context.channelId, tools.ts:552-562
ExecCtx ==
    /\ Running("ctx")
    /\ \E channel \in RequestContext(caller) :
          IF ToolHasContext /\ channel = "channel" THEN Advance(Top.resp)
          ELSE Raise(NoChannel)
    /\ UNCHANGED <<toolRest, lastStatus>>

\* if (updateStatus) updateStatus(...), inside the try block
ExecStatus ==
    /\ Running("status")
    /\ IF ToolHasReporter
       THEN \E throws \in MayThrow :
               IF throws
               THEN Raise(ReporterFault) /\ UNCHANGED lastStatus
               ELSE Advance(Top.resp) /\ lastStatus' = Shown(TopInstr.arg)
       ELSE Advance(Top.resp) /\ UNCHANGED lastStatus
    /\ UNCHANGED toolRest

\* await fetch(...), followed where the code has it by if (!response.ok) throw
ExecFetch ==
    /\ Running("fetch")
    /\ \E o \in Outcomes :
          IF o = "throws" \/ (o = "httpFail" /\ TopInstr.arg = "checked")
          THEN Raise("request failed")
          ELSE Advance(o)
    /\ UNCHANGED <<toolRest, lastStatus>>

\* await response.json() and the check of the body; sectionLookup returns
\* the sections Slack found (tools.ts:666-678); createCanvas returns the
\* error-shaped value itself when the canvas exists (tools.ts:587-595);
\* response.text() takes any body (tools.ts:942)
ExecParse ==
    /\ Running("parse")
    /\ IF Top.resp = "ok" /\ TopInstr.arg = "sections"
       THEN \E found \in SUBSET SectionIds :
               /\ frames' = [Advanced(Top.resp) EXCEPT
                                ![Len(frames)].ids = found]
               /\ UNCHANGED <<toolResult, gpc, error, nestedSteps>>
       ELSE IF Top.resp = "ok" \/ TopInstr.arg = "text"
       THEN Advance(Top.resp)
       ELSE IF TopInstr.arg = "create" /\ Top.resp = "bodyFail"
       THEN \E exists \in BOOLEAN :
               IF exists
               THEN Return([kind |-> "error",
                            error |-> "channel_canvas_already_exists"])
               ELSE Raise("Slack API error")
       ELSE Raise("Slack API error")
    /\ UNCHANGED <<toolRest, lastStatus>>

\* the tool's own generateText call, tools.ts:414-417, 467-476; the
\* provider looks for its API key when the call is made and throws before
\* any request when there is none
ExecSdk ==
    /\ Running("sdk")
    /\ IF ~Top.cred
       THEN Raise(MissingApiKey)
       ELSE \E ok \in BOOLEAN :
               IF ok THEN Advance(Top.resp) ELSE Raise("model call failed")
    /\ UNCHANGED <<toolRest, lastStatus>>

\* canvasEditorAgent calls canvasRead.execute, tools.ts:763
ExecSub ==
    /\ Running("sub")
    /\ Call(TopInstr.arg)
    /\ UNCHANGED <<toolRest, lastStatus, nestedSteps>>

\* (mutant of ReadFailed: the result of the read is not looked at)
ReadFailed_Ignored(f) == FALSE
\* 'error' in canvasResult, tools.ts:764, for the execute f that called
\* canvasRead
ReadFailed(f) == f.resp = "error"

\* if ('error' in canvasResult) throw new Error(`Failed to read canvas:
\* ${canvasResult.error}`), tools.ts:765-767: the message carries the
\* message of canvasRead
ExecSubcheck ==
    /\ Running("subcheck")
    /\ IF ReadFailed(Top) THEN Raise(Top.cause) ELSE Advance(Top.resp)
    /\ UNCHANGED <<toolRest, lastStatus>>

\* one step of the nested session (toolChoice 'required', maxSteps 8,
\* tools.ts:787-868): the model faults or calls one of the two tools,
\* makeEdits with changes that refer to any section ids or to none
NestedStep ==
    /\ Running("session")
    /\ nestedSteps < NestedMaxSteps
    /\ \E fault \in BOOLEAN :
          IF fault
          THEN Raise("model call failed")
          ELSE \E t \in InternalTools, ref \in SUBSET SectionIds :
                  /\ t = "sectionLookup" => ref = {}
                  /\ frames' = Append(frames, FrameWith(t, ref, Top.cred))
                  /\ nestedSteps' = nestedSteps + 1
                  /\ UNCHANGED <<toolResult, gpc, error>>
    /\ UNCHANGED <<toolRest, lastStatus>>

\* the nested session has used its steps
NestedEnd ==
    /\ Running("session")
    /\ nestedSteps = NestedMaxSteps
    /\ Advance(Top.resp)
    /\ UNCHANGED <<toolRest, lastStatus>>

\* the success return of an execute
ExecReturn ==
    /\ Running("return")
    /\ Return(Success)
    /\ UNCHANGED <<toolRest, lastStatus>>

ToolStep ==
    \/ ExecCred \/ ExecCtx \/ ExecStatus \/ ExecFetch \/ ExecParse \/ ExecSdk
    \/ ExecSub \/ ExecSubcheck \/ NestedStep \/ NestedEnd \/ ExecReturn

(***************************************************************************)
(* generateResponse: lib/generate-response.ts (tools wrapped with status   *)
(* lines, variant "wrapped") and part_002 (tools handed the reporter in    *)
(* their options, variant "enhanced").  generateText runs steps until a    *)
(* step makes no tool call or maxSteps steps have run.                     *)
(***************************************************************************)
\* maxSteps, generate-response.ts:113, part_002:138
MaxSteps == 10
\* most tool calls the model makes in one step
MaxCalls == 2

\* (mutant of SessionContinues: a step without tool calls does not end the
\* session)
SessionContinues_Always(n, nCalls) == n < MaxSteps
\* (mutant of SessionContinues: the step budget is not looked at)
SessionContinues_NoBudget(n, nCalls) == nCalls > 0
\* generateText goes on to another step after step n made nCalls tool calls
SessionContinues(n, nCalls) == nCalls > 0 /\ n < MaxSteps

\* texts of a step, as tokens: a word, a bold marker, a markdown link
StepTexts == {<<>>, <<"w">>, <<"**", "w", "**", "[t](u)">>}

\* text.replace(/\[(.*?)\]\((.*?)\)/g, '<$2|$1>').replace(/\*\*/g, '*'),
\* generate-response.ts:125
toMrkdwn(t) ==
    [j \in 1..Len(t) |-> CASE t[j] = "**" -> "*"
                           [] t[j] = "[t](u)" -> "<u|t>"
                           [] OTHER -> t[j]]

\* what generateResponse hands back for the last step's text
Formatted(t) == IF variant = "wrapped" THEN toMrkdwn(t) ELSE t

\* the status line of wrappedExecute, generate-response.ts:25-41
PreStatus(t) ==
    CASE t = "webScrape" -> "is scraping a webpage..."
      [] t = "deepResearch" -> "is conducting deep research..."
      [] t = "quickSearch" -> "is using quickSearch..."
      [] t = "listCanvases" -> "is using listCanvases..."
      [] t = "createCanvas" -> "is using createCanvas..."
      [] t = "canvasRead" -> "is using canvasRead..."
      [] t = "canvasEditorAgent" -> "is using canvasEditorAgent..."

\* generate-response.ts:22: the wrapper exists only with a reporter
Wrapped == variant = "wrapped" /\ updateStatus # "absent"

\* a status call made by generateResponse itself or by its wrappers: a throw
\* of the reporter leaves through the catch of generate-response.ts:128-131
Report(status, next) ==
    \E throws \in MayThrow :
       IF throws
       THEN /\ gpc' = "thrown"
            /\ error' = "reporter"
            /\ UNCHANGED lastStatus
       ELSE /\ gpc' = next
            /\ lastStatus' = Shown(status)
            /\ UNCHANGED error

\* generate-response.ts:12-15
GRStart ==
    /\ gpc = "start"
    /\ IF updateStatus # "absent"
       THEN Report("is thinking...", "llm")
       ELSE gpc' = "llm" /\ UNCHANGED <<lastStatus, error>>
    /\ UNCHANGED <<config, hpc, stepCount, text, stepCalls, callsLeft,
                   stepResults, returned, frames, nestedSteps, toolResult,
                   posted, reply, othersOrch>>

\* one model call of generateText (generate-response.ts:70-114): it faults,
\* or yields a text and some tool calls
LLMStep ==
    /\ gpc = "llm"
    /\ stepCount' = stepCount + 1
    /\ \E fault \in BOOLEAN :
          IF fault
          THEN /\ gpc' = "thrown"
               /\ error' = "llm"
               /\ UNCHANGED <<text, stepCalls, callsLeft, stepResults>>
          ELSE \E t \in StepTexts, n \in 0..MaxCalls :
                  /\ text' = t
                  /\ stepCalls' = n
                  /\ callsLeft' = n
                  /\ stepResults' = 0
                  /\ gpc' = IF n > 0 THEN "dispatch" ELSE "stepFinish"
                  /\ UNCHANGED error
    /\ UNCHANGED <<config, hpc, returned, frames, nestedSteps, toolResult,
                   lastStatus, posted, reply, othersOrch>>

\* generateText calls the execute of a requested tool; the wrapper reports
\* first (generate-response.ts:23-44), part_002:30-37 calls straight through
Dispatch ==
    /\ gpc = "dispatch"
    /\ callsLeft > 0
    /\ \E t \in Tools, cred \in BOOLEAN :
          /\ IF Wrapped
             THEN Report(PreStatus(t), "tool")
             ELSE gpc' = "tool" /\ UNCHANGED <<lastStatus, error>>
          /\ frames' = IF gpc' = "tool" THEN <<Frame(t, cred)>> ELSE <<>>
    /\ UNCHANGED <<config, hpc, stepCount, text, stepCalls, callsLeft,
                   stepResults, returned, nestedSteps, toolResult, posted, reply,
                   othersOrch>>

\* the tool's value comes back: the wrapper reports again
\* (generate-response.ts:47-50) and the value becomes a tool result
AfterTool ==
    /\ gpc = "toolReturned"
    /\ LET next == IF callsLeft > 1 THEN "dispatch" ELSE "stepFinish"
       IN  IF Wrapped
           THEN Report("is analyzing results...", next)
           ELSE gpc' = next /\ UNCHANGED <<lastStatus, error>>
    /\ IF gpc' = "thrown"
       THEN UNCHANGED <<callsLeft, stepResults, toolResult>>
       ELSE /\ callsLeft' = callsLeft - 1
            /\ stepResults' = stepResults + 1
            /\ toolResult' = NoResult
    /\ UNCHANGED <<config, hpc, stepCount, text, stepCalls, returned, frames,
                   nestedSteps, posted, reply, othersOrch>>

\* onStepFinish (generate-response.ts:115-120; part_002:140-145 only logs),
\* then the loop test of generateText and the return
\* (generate-response.ts:125-127, part_002:148)
StepFinish ==
    /\ gpc = "stepFinish"
    /\ LET next == IF SessionContinues(stepCount, stepCalls)
                   THEN "llm" ELSE "returned"
       IN  IF Wrapped /\ stepResults > 0
           THEN Report("is finalizing response...", next)
           ELSE gpc' = next /\ UNCHANGED <<lastStatus, error>>
    /\ returned' = IF gpc' = "returned" THEN Formatted(text) ELSE returned
    /\ UNCHANGED <<config, hpc, stepCount, text, stepCalls, callsLeft,
                   stepResults, frames, nestedSteps, toolResult, posted, reply,
                   othersOrch>>

(***************************************************************************)
(* The two entry points: handleNewAppMention (lib/handle-app-mention.ts)   *)
(* and handleNewAssistantMessage (lib/handle-messages.ts), and a direct    *)
(* call of generateResponse by any other caller.                           *)
(***************************************************************************)
Apology == "Sorry, I encountered an error while processing your request. Please try again."

\* the shared sender of handle-app-mention.ts:105-111: the text goes to the
\* thread of the request
sendUnifiedMessage(p, kind) == p \cup {kind}

genVars == <<gpc, stepCount, text, stepCalls, callsLeft, stepResults, error,
             returned, frames, nestedSteps, toolResult>>

\* (mutant of IsBotEvent: only bot_id is looked at)
IsBotEvent_IdOnly(e) == e = "bot_id"
\* event.bot_id || event.bot_id === botUserId || event.bot_profile,
\* handle-app-mention.ts:74, handle-messages.ts:46-48
IsBotEvent(e) == e \in {"bot_id", "bot_profile"}

\* the events a handler returns on at once: the assistant handler also
\* wants a thread (handle-messages.ts:49)
Skipped(c, e) == IsBotEvent(e) \/ (c = "assistant" /\ e = "no_thread")

\* handle-app-mention.ts:74-77, handle-messages.ts:45-51
Ignore ==
    /\ hpc = "received"
    /\ caller \in {"mention", "assistant"}
    /\ Skipped(caller, event)
    /\ hpc' = "ignored"
    /\ UNCHANGED <<config, genVars, lastStatus, posted, reply, othersOrch>>

\* handle-app-mention.ts:93: the placeholder message is posted
MentionStart ==
    /\ hpc = "received"
    /\ caller = "mention"
    /\ ~Skipped(caller, event)
    /\ posted' = posted \cup {"thinking"}
    /\ hpc' = "thread"
    /\ UNCHANGED <<config, genVars, lastStatus, reply, othersOrch>>

\* handle-messages.ts:54-55: the first status, not awaited
AssistantStart ==
    /\ hpc = "received"
    /\ caller = "assistant"
    /\ ~Skipped(caller, event)
    /\ lastStatus' = Shown("is thinking...")
    /\ hpc' = "thread"
    /\ UNCHANGED <<config, genVars, posted, reply, othersOrch>>

\* await getThread(...), handle-app-mention.ts:96-98 (skipped for a mention
\* outside a thread, :112-118) and handle-messages.ts:57; a failure is caught
\* in the mention handler (:129) and rejects the assistant handler
GetThread ==
    /\ hpc = "thread"
    /\ \E ok \in BOOLEAN :
          IF ok \/ event = "no_thread"
          THEN /\ hpc' = "generate"
               /\ gpc' = "start"
               /\ UNCHANGED error
          ELSE /\ hpc' = IF caller = "mention" THEN "catch" ELSE "rejected"
               /\ error' = "thread"
               /\ UNCHANGED gpc
    /\ UNCHANGED <<config, stepCount, text, stepCalls, callsLeft, stepResults,
                   returned, frames, nestedSteps, toolResult, lastStatus,
                   posted, reply, othersOrch>>

\* generateResponse called by some other caller, with any reporter
DirectCall ==
    /\ hpc = "received"
    /\ caller = "direct"
    /\ hpc' = "generate"
    /\ gpc' = "start"
    /\ UNCHANGED <<config, stepCount, text, stepCalls, callsLeft, stepResults,
                   error, returned, frames, nestedSteps, toolResult,
                   lastStatus, posted, reply, othersOrch>>

\* handle-app-mention.ts:102-111, 114-127
MentionReply ==
    /\ hpc = "generate"
    /\ caller = "mention"
    /\ gpc = "returned"
    /\ posted' = sendUnifiedMessage(posted, "reply")
    /\ hpc' = "done"
    /\ UNCHANGED <<config, genVars, lastStatus, reply, othersOrch>>

\* handle-app-mention.ts:129-142
MentionCatch ==
    /\ caller = "mention"
    /\ \/ hpc = "catch"
       \/ hpc = "generate" /\ gpc = "thrown"
    /\ posted' = sendUnifiedMessage(posted, "apology")
    /\ hpc' = "done"
    /\ UNCHANGED <<config, genVars, lastStatus, reply, othersOrch>>

\* handle-messages.ts:150-167: a reply within the limit is one message
\* with one section block; a longer one goes to sendSplitMessages (:170),
\* whose messages SpecChunk follows
ReplyMessage(t) ==
    IF Len(t) <= SLACK_CHAR_LIMIT THEN Message(t, <<t>>) ELSE NoMessage

\* handle-messages.ts:60-172: the reply is posted, whole or split
AssistantReply ==
    /\ hpc = "generate"
    /\ caller = "assistant"
    /\ gpc = "returned"
    /\ posted' = posted \cup {"reply"}
    /\ reply' = ReplyMessage(returned)
    /\ hpc' = "clear"
    /\ UNCHANGED <<config, genVars, lastStatus, othersOrch>>

\* handle-messages.ts:174
AssistantClear ==
    /\ hpc = "clear"
    /\ lastStatus' = Shown("")
    /\ hpc' = "done"
    /\ UNCHANGED <<config, genVars, posted, reply, othersOrch>>

\* handle-messages.ts:58 stands in no try block: the fault rethrown by
\* generateResponse rejects the handler
AssistantReject ==
    /\ hpc = "generate"
    /\ caller = "assistant"
    /\ gpc = "thrown"
    /\ hpc' = "rejected"
    /\ UNCHANGED <<config, genVars, lastStatus, posted, reply, othersOrch>>

\* the other caller gets the text or the fault
DirectEnd ==
    /\ hpc = "generate"
    /\ caller = "direct"
    /\ gpc \in {"returned", "thrown"}
    /\ hpc' = IF gpc = "returned" THEN "done" ELSE "rejected"
    /\ UNCHANGED <<config, genVars, lastStatus, posted, reply, othersOrch>>

Reporters == {"absent", "working", "throwing", "rejecting"}

\* one inbound event or call; the handlers build async reporters
\* (handle-app-mention.ts:45-66, slack-utils.ts:62-70), another caller may
\* pass any function or none
Init ==
    /\ IdleChunk
    /\ IdleStatus
    /\ IdleWrap
    /\ IdleDedup
    /\ IdleSearch
    /\ IdleRetry
    /\ caller \in {"mention", "assistant", "direct"}
    /\ event \in {"user", "no_thread", "bot_id", "bot_profile"}
    /\ variant \in {"wrapped", "enhanced"}
    /\ updateStatus \in Reporters
    /\ caller = "direct" => event = "user"
    /\ caller # "direct" => updateStatus \in {"working", "rejecting"}
    /\ hpc = "received"
    /\ gpc = "idle"
    /\ stepCount = 0
    /\ text = <<>>
    /\ stepCalls = 0
    /\ callsLeft = 0
    /\ stepResults = 0
    /\ error = "none"
    /\ returned = <<>>
    /\ frames = <<>>
    /\ nestedSteps = 0
    /\ toolResult = NoResult
    /\ lastStatus = ""
    /\ posted = {}
    /\ reply = NoMessage

Next ==
    \/ Ignore \/ MentionStart \/ AssistantStart \/ GetThread \/ DirectCall
    \/ GRStart \/ LLMStep \/ Dispatch \/ ToolStep \/ AfterTool \/ StepFinish
    \/ MentionReply \/ MentionCatch \/ AssistantReply \/ AssistantClear
    \/ AssistantReject \/ DirectEnd

Spec == Init /\ [][Next]_vars

(***************************************************************************)
(* One call of canvasEditorAgent (tools.ts:755-883) from the moment        *)
(* generateText has called its execute: the snapshot read, the nested      *)
(* session and the return.  The event loop runs every continuation whose   *)
(* remote call has settled, and every remote call settles, so the steps    *)
(* of the call are weakly fair.                                            *)
(***************************************************************************)
InitAgent ==
    /\ IdleChunk
    /\ IdleStatus
    /\ IdleWrap
    /\ IdleDedup
    /\ IdleSearch
    /\ IdleRetry
    /\ caller = "direct"
    /\ event = "user"
    /\ variant \in {"wrapped", "enhanced"}
    /\ updateStatus \in Reporters
    /\ hpc = "generate"
    /\ gpc = "tool"
    /\ stepCount = 1
    /\ text = <<>>
    /\ stepCalls = 1
    /\ callsLeft = 1
    /\ stepResults = 0
    /\ error = "none"
    /\ returned = <<>>
    /\ \E cred \in BOOLEAN : frames = <<Frame("canvasEditorAgent", cred)>>
    /\ nestedSteps = 0
    /\ toolResult = NoResult
    /\ lastStatus = IF updateStatus \in {"absent", "rejecting"} THEN ""
                    ELSE IF variant = "wrapped"
                         THEN PreStatus("canvasEditorAgent")
                         ELSE "is thinking..."
    /\ posted = {}
    /\ reply = NoMessage

NextAgent ==
    \/ ExecCred \/ ExecStatus \/ ExecFetch \/ ExecParse \/ ExecSub
    \/ ExecSubcheck \/ NestedStep \/ NestedEnd \/ ExecReturn

SpecAgent == InitAgent /\ [][NextAgent]_vars /\ WF_vars(NextAgent)

(***************************************************************************)
(* The status calls of one request.  generateResponse and the tools call   *)
(* the reporter without awaiting it (generate-response.ts:13, 27-39, 47,   *)
(* 118), so every status is a call of its own to Slack: chat.update under  *)
(* withRetry for updateMessage, assistant.threads.setStatus for the        *)
(* reporter of slack-utils.                                                *)
(***************************************************************************)
\* statuses one request emits
MaxStatuses == 3
\* maxRetries of withRetry, handle-app-mention.ts:8
maxRetries == 3

StatusIds == 1..MaxStatuses

\* the attempts a reporter makes for one status: withRetry(...) in
\* handle-app-mention.ts:54, one call in slack-utils.ts:64-68
Attempts(r) == IF r = "updateMessage" THEN maxRetries ELSE 1

InitStatus ==
    /\ IdleChunk
    /\ IdleOrch
    /\ IdleWrap
    /\ IdleDedup
    /\ IdleSearch
    /\ IdleRetry
    /\ reporter \in {"updateMessage", "setStatus"}
    /\ emitted = 0
    /\ phase = [s \in StatusIds |-> "none"]
    /\ attempt = [s \in StatusIds |-> 0]
    /\ shown = <<>>

\* updateStatus(status) is called and the caller goes on: the first request
\* for this status leaves
Emit ==
    /\ emitted < MaxStatuses
    /\ emitted' = emitted + 1
    /\ phase' = [phase EXCEPT ![emitted + 1] = "flying"]
    /\ attempt' = [attempt EXCEPT ![emitted + 1] = 1]
    /\ UNCHANGED <<reporter, shown, othersStatus>>

\* Slack takes the request of status s and displays it
Deliver ==
    \E s \in StatusIds :
       /\ phase[s] = "flying"
       /\ phase' = [phase EXCEPT ![s] = "delivered"]
       /\ shown' = Append(shown, s)
       /\ UNCHANGED <<reporter, emitted, attempt, othersStatus>>

\* the request of status s fails: withRetry sleeps before another attempt
\* (handle-app-mention.ts:15-23) or gives up (:26); setStatus just rejects
Fail ==
    \E s \in StatusIds :
       /\ phase[s] = "flying"
       /\ phase' = [phase EXCEPT ![s] =
                       IF attempt[s] < Attempts(reporter)
                       THEN "sleeping" ELSE "dropped"]
       /\ UNCHANGED <<reporter, emitted, attempt, shown, othersStatus>>

\* the delay of withRetry is over, the next attempt leaves
\* (handle-app-mention.ts:12-14, 20)
Retry ==
    \E s \in StatusIds :
       /\ phase[s] = "sleeping"
       /\ phase' = [phase EXCEPT ![s] = "flying"]
       /\ attempt' = [attempt EXCEPT ![s] = attempt[s] + 1]
       /\ UNCHANGED <<reporter, emitted, shown, othersStatus>>

NextStatus == Emit \/ Deliver \/ Fail \/ Retry

SpecStatus == InitStatus /\ [][NextStatus]_vars

(***************************************************************************)
(* Two requests and the shared tool map.  An execute is written as the     *)
(* chain of requests whose wrappers surround the original execute: <<>> is *)
(* the execute of lib/tools.ts itself.                                     *)
(***************************************************************************)
Requests == {"r1", "r2"}
\* generateResponse calls one request source makes
MaxRuns == 2

Original == [t \in Tools |-> <<>>]

\* (mutant of WrapTools: the wrapper is stored into the shared tool object)
WrapTools_InPlace(reg, r, has) ==
    LET wrapped == [t \in Tools |-> IF has THEN <<r>> \o reg[t] ELSE reg[t]]
    IN  [registry |-> wrapped, wrapped |-> wrapped]
\* generate-response.ts:18-68 (part_002:20-41 alike): a new map of new tool
\* objects, each execute a closure over this request's updateStatus; without
\* a reporter the entries are the original tools
WrapTools(reg, r, has) ==
    [registry |-> reg,
     wrapped  |-> [t \in Tools |-> IF has THEN <<r>> \o reg[t] ELSE reg[t]]]

InitWrap ==
    /\ IdleChunk
    /\ IdleOrch
    /\ IdleStatus
    /\ IdleDedup
    /\ IdleSearch
    /\ IdleRetry
    /\ registry = Original
    /\ hasReporter \in [Requests -> BOOLEAN]
    /\ rpc = [r \in Requests |-> "idle"]
    /\ own = [r \in Requests |-> Original]
    /\ log = [r \in Requests |-> {}]
    /\ runs = [r \in Requests |-> 0]

\* a generateResponse call of request r builds its tool map
Wrap ==
    \E r \in Requests :
       /\ rpc[r] = "idle"
       /\ runs[r] < MaxRuns
       /\ LET w == WrapTools(registry, r, hasReporter[r])
          IN  /\ registry' = w.registry
              /\ own' = [own EXCEPT ![r] = w.wrapped]
       /\ rpc' = [rpc EXCEPT ![r] = "ready"]
       /\ runs' = [runs EXCEPT ![r] = runs[r] + 1]
       /\ UNCHANGED <<hasReporter, log, othersWrap>>

\* generateText of request r calls a tool of its map: every wrapper on the
\* way reports to the updateStatus it closed over
CallTool ==
    \E r \in Requests, t \in Tools :
       /\ rpc[r] = "ready"
       /\ log' = [q \in Requests |->
                     IF \E k \in 1..Len(own[r][t]) : own[r][t][k] = q
                     THEN log[q] \cup {r} ELSE log[q]]
       /\ UNCHANGED <<registry, hasReporter, rpc, own, runs, othersWrap>>

\* the generateResponse call of request r is over
Finish ==
    \E r \in Requests :
       /\ rpc[r] = "ready"
       /\ rpc' = [rpc EXCEPT ![r] = "idle"]
       /\ UNCHANGED <<registry, hasReporter, own, log, runs, othersWrap>>

NextWrap == Wrap \/ CallTool \/ Finish

SpecWrap == InitWrap /\ [][NextWrap]_vars

(***************************************************************************)
(* deduplicateByDomainAndUrl, lib/tools.ts:11-26.  A URL string is written *)
(* as the parts `new URL' finds in it: host and path are sequences of      *)
(* characters, rest is the query string and the fragment.  A string with   *)
(* an opaque path ("foo:a/x") has an empty hostname; a string that is no   *)
(* URL makes `new URL' throw.                                              *)
(***************************************************************************)
\* the longest list enumerated
MaxItems == 3

Url(kind, host, path, rest) ==
    [kind |-> kind, host |-> host, path |-> path, rest |-> rest]

Urls ==
    {Url("special", h, q, r) :
        h \in {<<"a">>, <<"b">>},
        q \in {<<"/", "x">>, <<"/", "y">>},
        r \in {"", "?ref=1", "?ref=2#f"}}
    \cup {Url("opaque", <<>>, <<"a", "/", "x">>, "")}
    \cup {Url("invalid", <<>>, <<>>, r) : r \in {"", "n/a"}}

\* new URL(item.url) throws, tools.ts:15, 20
Parses(u) == u.kind # "invalid"

\* (mutant of KeyOf: the query string and the fragment stay in the key)
KeyOf_WithRest(u) == u.host \o u.path \o <<u.rest>>
\* `${url.hostname}${url.pathname}`, tools.ts:16
KeyOf(u) == u.host \o u.path

\* items.filter(...) with the closure's `seen' set, tools.ts:12-25
RECURSIVE FilterSeen(_, _)
FilterSeen(list, seen) ==
    IF list = <<>> THEN <<>>
    ELSE LET item == Head(list)
         IN  IF ~Parses(item)
             THEN <<item>> \o FilterSeen(Tail(list), seen)
             ELSE IF KeyOf(item) \in seen
             THEN FilterSeen(Tail(list), seen)
             ELSE <<item>> \o FilterSeen(Tail(list), seen \cup {KeyOf(item)})

deduplicateByDomainAndUrl(list) == FilterSeen(list, {})

RECURSIVE ListsUpTo(_, _)
ListsUpTo(S, n) ==
    IF n = 0 THEN {<<>>}
    ELSE LET shorter == ListsUpTo(S, n - 1)
         IN  shorter \cup {Append(l, x) : l \in {m \in shorter : Len(m) = n - 1},
                                          x \in S}

InitDedup ==
    /\ IdleChunk
    /\ IdleOrch
    /\ IdleStatus
    /\ IdleWrap
    /\ IdleSearch
    /\ IdleRetry
    /\ items \in ListsUpTo(Urls, MaxItems)
    /\ deduped = <<>>
    /\ again = <<>>
    /\ dpc = "start"

\* the function is applied to the list
DedupOnce ==
    /\ dpc = "start"
    /\ deduped' = deduplicateByDomainAndUrl(items)
    /\ dpc' = "once"
    /\ UNCHANGED <<items, again, othersDedup>>

\* the function is applied to its own result
DedupTwice ==
    /\ dpc = "once"
    /\ again' = deduplicateByDomainAndUrl(deduped)
    /\ dpc' = "twice"
    /\ UNCHANGED <<items, deduped, othersDedup>>

NextDedup == DedupOnce \/ DedupTwice

SpecDedup == InitDedup /\ [][NextDedup]_vars

(***************************************************************************)
(* jinaSearch, lib/tools.ts:100-400: the query generation, one async       *)
(* callback per sub-query (:178-256), Promise.all (:258), the selection,   *)
(* one async callback per selected result (:323-364), Promise.all (:366)   *)
(* and the return.  A sub-query callback touches allSearchResults only in  *)
(* the synchronous forEach of :233-239, so one action per callback is      *)
(* enough; the callbacks finish in any order.                              *)
(***************************************************************************)
\* the sub-queries the model wrote (five are asked for, tools.ts:140-160)
MaxQueries == 2
\* data.data.slice(0, 15), tools.ts:223
PerQueryCap == 15

Queries == 1..MaxQueries

\* result lists Jina may send for one sub-query
ResultLists ==
    LET ax  == Url("special", <<"a">>, <<"/", "x">>, "")
        ax1 == Url("special", <<"a">>, <<"/", "x">>, "?ref=1")
        by  == Url("special", <<"b">>, <<"/", "y">>, "")
        bad == Url("invalid", <<>>, <<>>, "n/a")
    IN  {<<>>, <<ax>>, <<ax, ax1>>, <<ax1, by>>, <<bad, by>>}

\* what the search API does for one sub-query; a body that reports failure
\* may still carry data
Responses ==
    [outcome : {"ok", "bodyFail"}, data : ResultLists]
    \cup [outcome : {"throws", "httpFail", "malformed"}, data : {<<>>}]

\* (mutant of Contribution: the data of a failing body is used all the same)
Contribution_IgnoresCode(resp) ==
    IF resp.outcome \in {"ok", "bodyFail"}
    THEN deduplicateByDomainAndUrl(
             SubSeq(resp.data, 1, Min(PerQueryCap, Len(resp.data))))
    ELSE <<>>
\* what one sub-query adds to the collection: the deduplicated first 15
\* results of a good response (tools.ts:223-230), nothing otherwise
\* (:200-220, 246-255)
Contribution(resp) ==
    IF resp.outcome = "ok"
    THEN deduplicateByDomainAndUrl(
             SubSeq(resp.data, 1, Min(PerQueryCap, Len(resp.data))))
    ELSE <<>>

\* the value the callback of sub-query q resolves to (tools.ts:202-207,
\* 214-219, 241-245, 249-254)
NoteOf(q, resp) ==
    [query |-> q,
     resultCount |-> Len(Contribution(resp)),
     error |-> CASE resp.outcome = "ok" -> ""
                 [] resp.outcome \in {"httpFail", "bodyFail"} -> "Search failed"
                 [] OTHER -> "request failed"]

\* processedMetadata.forEach(result => allSearchResults.push(...)),
\* tools.ts:233-239
Tagged(list, q) == [k \in 1..Len(list) |-> [url |-> list[k], query |-> q]]

\* selectionResult.selectedIndices.slice(0, 10), tools.ts:314
SelectionCap == 10

\* the index lists the selection may answer with for n collected results:
\* nothing, valid indices, and an index that names no collected result
Selections(n) == {<<>>, <<0>>, <<0, n - 1>>, <<n>>, <<0, n>>}

Statused(ph) == [kind |-> "status", phase |-> ph]
Called(ph) == [kind |-> "call", phase |-> ph]

\* (mutant of PhaseEvents: the requests are issued before the status call)
PhaseEvents_CallsFirst(rep, ph, nCalls) ==
    [k \in 1..nCalls |-> Called(ph)]
       \o (IF rep = "absent" THEN <<>> ELSE <<Statused(ph)>>)
\* what one phase adds to the log: the status call, when there is a
\* reporter, and then the remote calls the phase issues (tools.ts:120-140,
\* 164-178, 264-279, 318-326, 368-371)
PhaseEvents(rep, ph, nCalls) ==
    (IF rep = "absent" THEN <<>> ELSE <<Statused(ph)>>)
       \o [k \in 1..nCalls |-> Called(ph)]

\* whether index names a collected result (allSearchResults[index],
\* tools.ts:324)
Collected(index, all) == index >= 0 /\ index < Len(all)

\* the selected indices whose callback gets as far as its request
\* (tools.ts:324-336: result.url of a missing result throws first)
ValidCount(sel, all) == Cardinality({k \in 1..Len(sel) : Collected(sel[k], all)})

\* the state of the content callbacks right after selectedIndices.map
\* (tools.ts:323-336)
Mapped(sel, all) ==
    [k \in 1..Len(sel) |->
        IF Collected(sel[k], all) THEN "pending" ELSE "rejected"]

InitSearch ==
    /\ IdleChunk
    /\ IdleOrch
    /\ IdleStatus
    /\ IdleWrap
    /\ IdleDedup
    /\ IdleRetry
    /\ responses \in [Queries -> Responses]
    /\ finished = {}
    /\ notes = [q \in Queries |-> [query |-> q, resultCount |-> 0, error |-> "pending"]]
    /\ allSearchResults = <<>>
    /\ spc = "start"
    /\ searchResult = NoResult
    /\ searchReporter \in {"absent", "working", "throwing"}
    /\ searchLog = <<>>
    /\ selectedIndices = <<>>
    /\ contents = <<>>
    /\ resultsWithContent = <<>>

\* the outer catch of execute, tools.ts:393-397
SearchCatch(msg) ==
    /\ spc' = "returned"
    /\ searchResult' = Catch(msg)

\* a phase begins: its status call, which a throwing reporter may turn into
\* the outer catch, then its remote calls are issued and execute waits at
\* next
BeginPhase(ph, nCalls, next) ==
    \E throws \in (IF searchReporter = "throwing" THEN BOOLEAN ELSE {FALSE}) :
       IF throws
       THEN /\ searchLog' = Append(searchLog, Statused(ph))
            /\ SearchCatch(ReporterFault)
       ELSE /\ searchLog' =
                  searchLog \o PhaseEvents(searchReporter, ph, nCalls)
            /\ spc' = next
            /\ UNCHANGED searchResult

\* tools.ts:109-140: the credential check, the first status, and the query
\* generation is requested
SearchStart ==
    /\ spc = "start"
    /\ \E key \in BOOLEAN :
          IF key
          THEN BeginPhase("generating", 1, "generating")
          ELSE /\ SearchCatch(MissingCredential)
               /\ UNCHANGED searchLog
    /\ UNCHANGED <<responses, finished, notes, allSearchResults,
                   searchReporter, selectedIndices, contents,
                   resultsWithContent, othersSearch>>

\* tools.ts:140-178: the query generation answers or fails; with queries
\* the second status is emitted and every sub-query's request is issued
GenerateQueries ==
    /\ spc = "generating"
    /\ \E ok \in BOOLEAN :
          IF ok
          THEN BeginPhase("executing", MaxQueries, "fanout")
          ELSE /\ SearchCatch("query generation failed")
               /\ UNCHANGED searchLog
    /\ UNCHANGED <<responses, finished, notes, allSearchResults,
                   searchReporter, selectedIndices, contents,
                   resultsWithContent, othersSearch>>

\* the callback of one sub-query runs to its end, tools.ts:178-256
SubQuery ==
    /\ spc = "fanout"
    /\ \E q \in Queries \ finished :
          /\ allSearchResults' =
                allSearchResults \o Tagged(Contribution(responses[q]), q)
          /\ notes' = [notes EXCEPT ![q] = NoteOf(q, responses[q])]
          /\ finished' = finished \cup {q}
    /\ UNCHANGED <<responses, spc, searchResult, searchReporter, searchLog,
                   selectedIndices, contents, resultsWithContent,
                   othersSearch>>

\* await Promise.all(searchPromises), tools.ts:258: no callback rejects
Join ==
    /\ spc = "fanout"
    /\ finished = Queries
    /\ spc' = "joined"
    /\ UNCHANGED <<responses, finished, notes, allSearchResults, searchResult,
                   searchReporter, searchLog, selectedIndices, contents,
                   resultsWithContent, othersSearch>>

\* tools.ts:263-279 and 382-392: with results, the third status and the
\* selection is requested; without, the empty answer is returned
SelectStart ==
    /\ spc = "joined"
    /\ IF allSearchResults # <<>>
       THEN BeginPhase("selecting", 1, "selecting")
       ELSE /\ SearchCatch("No search results found across all queries")
            /\ UNCHANGED searchLog
    /\ UNCHANGED <<responses, finished, notes, allSearchResults,
                   searchReporter, selectedIndices, contents,
                   resultsWithContent, othersSearch>>

\* tools.ts:279-336: the selection answers or fails; its first ten indices
\* are kept, the fourth status is emitted and selectedIndices.map starts one
\* callback per index
SelectResults ==
    /\ spc = "selecting"
    /\ \E ok \in BOOLEAN :
          IF ok
          THEN \E answer \in Selections(Len(allSearchResults)) :
                  LET sel == SubSeq(answer, 1, Min(SelectionCap, Len(answer)))
                  IN  /\ selectedIndices' = sel
                      /\ BeginPhase("retrieving",
                                    ValidCount(sel, allSearchResults),
                                    "content")
                      /\ contents' = IF spc' = "content"
                                     THEN Mapped(sel, allSearchResults)
                                     ELSE contents
          ELSE /\ SearchCatch("selection failed")
               /\ UNCHANGED <<searchLog, selectedIndices, contents>>
    /\ UNCHANGED <<responses, finished, notes, allSearchResults,
                   searchReporter, resultsWithContent, othersSearch>>

\* what the content service does for one request: content, a non-success
\* status, a body with another code, or a request or body that throws
ContentOutcomes == {"ok", "httpFail", "bodyFail", "throws"}

\* the state a content callback settles in, tools.ts:327-363: the result
\* with its content, the result with a failure note as content, or a
\* rejected promise (nothing in the callback catches)
Settled(outcome) ==
    CASE outcome = "ok" -> "content"
      [] outcome \in {"httpFail", "bodyFail"} -> "annotated"
      [] OTHER -> "rejected"

\* one content callback settles.  A rejection is handed to the waiting
\* execute before any other callback can settle; once execute has returned
\* the remaining requests still run to their end.
ContentFetch ==
    /\ \/ spc = "content" /\ \A k \in DOMAIN contents : contents[k] # "rejected"
       \/ spc = "returned"
    /\ \E k \in DOMAIN contents, outcome \in ContentOutcomes :
          /\ contents[k] = "pending"
          /\ contents' = [contents EXCEPT ![k] = Settled(outcome)]
    /\ UNCHANGED <<responses, finished, notes, allSearchResults, spc,
                   searchResult, searchReporter, searchLog, selectedIndices,
                   resultsWithContent, othersSearch>>

\* await Promise.all(contentPromises) fulfils, tools.ts:366-380: the fifth
\* status and the results are returned
ContentJoin ==
    /\ spc = "content"
    /\ \A k \in DOMAIN contents : contents[k] \in {"content", "annotated"}
    /\ \E throws \in (IF searchReporter = "throwing" THEN BOOLEAN ELSE {FALSE}) :
          IF throws
          THEN /\ searchLog' = Append(searchLog, Statused("compiling"))
               /\ SearchCatch(ReporterFault)
               /\ UNCHANGED resultsWithContent
          ELSE /\ searchLog' =
                     searchLog \o PhaseEvents(searchReporter, "compiling", 0)
               /\ spc' = "returned"
               /\ searchResult' = Success
               /\ resultsWithContent' = contents
    /\ UNCHANGED <<responses, finished, notes, allSearchResults,
                   searchReporter, selectedIndices, contents, othersSearch>>

\* await Promise.all(contentPromises) rejects with the first rejection,
\* tools.ts:366 and 393-397
ContentAbort ==
    /\ spc = "content"
    /\ \E k \in DOMAIN contents : contents[k] = "rejected"
    /\ SearchCatch("content request failed")
    /\ UNCHANGED <<responses, finished, notes, allSearchResults,
                   searchReporter, searchLog, selectedIndices, contents,
                   resultsWithContent, othersSearch>>

NextSearch ==
    \/ SearchStart
    \/ GenerateQueries
    \/ SubQuery
    \/ Join
    \/ SelectStart
    \/ SelectResults
    \/ ContentFetch
    \/ ContentJoin
    \/ ContentAbort

SpecSearch == InitSearch /\ [][NextSearch]_vars

(***************************************************************************)
(* withRetry, lib/handle-app-mention.ts:6-27, called with any maxRetries   *)
(* up to MaxTries and a function that returns or throws at each call.      *)
(***************************************************************************)
\* the largest maxRetries tried (the callers use the default, 3)
MaxTries == 3

\* the delay arguments tried, in units of the default of 1000 ms
Delays == {1, 3}

\* what one call of fn does: it resolves to a value or rejects with an error
FnOutcomes == [kind : {"value", "error"}, id : {1, 2}]

\* (mutant of NextDelay: the delay stays as it is)
NextDelay_Constant(d) == d
\* delay *= 2, handle-app-mention.ts:22
NextDelay(d) == d * 2

InitRetry ==
    /\ IdleChunk
    /\ IdleOrch
    /\ IdleStatus
    /\ IdleWrap
    /\ IdleDedup
    /\ IdleSearch
    /\ wArgs \in [maxRetries : 0..MaxTries, delay : Delays]
    /\ wAttempt = 1
    /\ wDelay = wArgs.delay
    /\ wLastError = [kind |-> "undefined", id |-> 0]
    /\ wCalls = <<>>
    /\ wWaits = <<>>
    /\ wpc = "loop"
    /\ wResult = NoOutcome

\* one iteration of the loop up to its await or its end,
\* handle-app-mention.ts:12-19: fn is called; its value is returned, or its
\* error is kept and, unless this was the last attempt, the wait begins
Try ==
    /\ wpc = "loop"
    /\ wAttempt <= wArgs.maxRetries
    /\ \E o \in FnOutcomes :
          /\ wCalls' = Append(wCalls, o)
          /\ IF o.kind = "value"
             THEN /\ wpc' = "returned"
                  /\ wResult' = o
                  /\ UNCHANGED <<wLastError, wAttempt>>
             ELSE /\ wLastError' = o
                  /\ IF wAttempt < wArgs.maxRetries
                     THEN wpc' = "wait" /\ UNCHANGED wAttempt
                     ELSE wpc' = "loop" /\ wAttempt' = wAttempt + 1
                  /\ UNCHANGED wResult
    /\ UNCHANGED <<wArgs, wDelay, wWaits, othersRetry>>

\* the timer of handle-app-mention.ts:20 fires, the delay is doubled (:22)
\* and the loop goes to its next attempt
Backoff ==
    /\ wpc = "wait"
    /\ wWaits' = Append(wWaits, wDelay)
    /\ wDelay' = NextDelay(wDelay)
    /\ wAttempt' = wAttempt + 1
    /\ wpc' = "loop"
    /\ UNCHANGED <<wArgs, wLastError, wCalls, wResult, othersRetry>>

\* throw lastError, handle-app-mention.ts:26
GiveUp ==
    /\ wpc = "loop"
    /\ wAttempt > wArgs.maxRetries
    /\ wpc' = "thrown"
    /\ wResult' = wLastError
    /\ UNCHANGED <<wArgs, wAttempt, wDelay, wLastError, wCalls, wWaits,
                   othersRetry>>

NextRetry == Try \/ Backoff \/ GiveUp

SpecRetry == InitRetry /\ [][NextRetry]_vars

(***************************************************************************)
(* Claims about the orchestration (Spec)                                   *)
(***************************************************************************)
\* C1: generateResponse runs at most maxSteps = 10 model steps whatever the
\* model asks for, no further step is pending once the budget is used, and
\* what it returns is the text of the last step (in Slack's markup in the
\* variant that reformats).
C1_BoundedSession ==
    /\ stepCount <= MaxSteps
    /\ gpc = "llm" => stepCount < MaxSteps
    /\ gpc = "returned" => stepCount >= 1 /\ returned = Formatted(text)

\* the model asked for tools at every one of the ten steps and the call
\* returned
C1_Witness ==
    /\ gpc = "returned"
    /\ stepCount = MaxSteps
    /\ stepCalls > 0

\* C2: whatever its remote calls do, the execute of a registry tool hands
\* generateText a success payload or an object with an error string; nothing
\* is raised past the execute, also not by the tool that canvasEditorAgent
\* calls.
C2_ToolsNeverThrow ==
    /\ gpc = "toolReturned" =>
          /\ toolResult.kind \in {"ok", "error"}
          /\ toolResult.kind = "error" => toolResult.error # ""
    /\ \A k \in 1..Len(frames) :
          Program(frames[k].tool)[frames[k].pc].op = "subcheck" =>
             frames[k].resp \in {"ok", "error"}

\* a remote call of a registry tool failed and the tool returned the
\* error-shaped value
C2_Witness ==
    /\ gpc = "toolReturned"
    /\ toolResult = Catch("request failed")

\* C3: when the model session of generateResponse faults, the handler that
\* called it ends the turn with the apology posted and no reply posted.
C3_CallerApologises ==
    (/\ error = "llm"
     /\ caller \in {"mention", "assistant"}
     /\ hpc \in {"done", "rejected"})
    => /\ "apology" \in posted
       /\ "reply" \notin posted

\* C5: a reporter that is absent or that fails is never the reason why
\* generateResponse throws or why a tool call yields an error.
C5_ReporterNeverAborts ==
    /\ error # "reporter"
    /\ gpc = "toolReturned" => toolResult.error # ReporterFault

(***************************************************************************)
(* Claims about the status calls (SpecStatus) and the wrapping (SpecWrap)  *)
(***************************************************************************)
\* C4: Slack never displays a status after it has displayed one that was
\* emitted later.
C4_EmissionOrder ==
    \A a, b \in 1..Len(shown) : a < b => shown[a] <= shown[b]

\* C6: the exported tool map keeps the original execute of every tool, and
\* a reporter only ever hears of tool calls of its own request.
C6_RegistryUntouched ==
    /\ registry = Original
    /\ \A q \in Requests : log[q] \subseteq {q}

\* both requests are inside generateResponse at once, each for the second
\* time, and each reporter has heard of a tool call
C6_Witness ==
    /\ \A q \in Requests : rpc[q] = "ready" /\ runs[q] = MaxRuns
    /\ \A q \in Requests : log[q] = {q}

(***************************************************************************)
(* Claims about the formatters (SpecChunk)                                 *)
(***************************************************************************)
IsPrefix(p, s) == Len(p) <= Len(s) /\ SubSeq(s, 1, Len(p)) = p

\* out is s with some whitespace characters deleted and nothing else changed
RECURSIVE WhitespaceDeleted(_, _)
WhitespaceDeleted(s, out) ==
    IF s = <<>> THEN out = <<>>
    ELSE \/ out # <<>> /\ Head(s) = Head(out) /\ WhitespaceDeleted(Tail(s), Tail(out))
         \/ IsWhitespace(Head(s)) /\ WhitespaceDeleted(Tail(s), out)

\* the cut at index k splits a word: a non-whitespace character on both sides
EndsMidWord(s, k) ==
    /\ k > 0 /\ k < Len(s)
    /\ ~IsWhitespace(charAt(s, k - 1))
    /\ ~IsWhitespace(charAt(s, k))

\* the concatenated blocks of a finished part_005 delivery, without the notice
BlocksText ==
    IF Len(result) > SLACK_TEXT_LIMIT
    THEN SubSeq(Concat(blocks), 1, Len(Concat(blocks)) - Len(TruncationNotice))
    ELSE Concat(blocks)

\* C7: every block the formatter produces is at most the block limit long:
\* each section block of part_005 and each chunk of splitTextIntoChunks.
C7_BlocksWithinLimit ==
    /\ \A k \in 1..Len(blocks) : Len(blocks[k]) <= SECTION_BLOCK_LIMIT
    /\ \A k \in 1..Len(chunks) : Len(chunks[k]) <= SLACK_CHAR_LIMIT

C9_ShortTextOneBlock ==
    /\ (formatter = "blocks" /\ fpc = "done" /\ Len(result) <= SECTION_BLOCK_LIMIT) =>
           sent[1].blocks = <<result>>
    /\ (formatter = "messages" /\ fpc = "done" /\ Len(result) <= SLACK_CHAR_LIMIT) =>
           Len(sent) = 1 /\ sent[1].blocks = <<result>>

\* C10: when the text has a space 5 characters before a block boundary, the
\* block ends no later than the boundary and not in the middle of a word.
C10_WordBoundary ==
    /\ formatter = "blocks" =>
           \A k \in 1..Len(blocks) :
               LET boundary == k * SECTION_BLOCK_LIMIT
               IN  (boundary < Len(messageText) /\ charAt(messageText, boundary - 5) = " ")
                       => ~EndsMidWord(messageText, boundary)
    /\ (formatter = "messages" /\ fpc = "split" /\ Len(remainingText) > SLACK_CHAR_LIMIT
            /\ charAt(remainingText, SLACK_CHAR_LIMIT - 5) = " ") =>
           LET cut == findBreakPoint(remainingText, SLACK_CHAR_LIMIT)
           IN  cut <= SLACK_CHAR_LIMIT + 1 /\ ~EndsMidWord(remainingText, cut)

\* C11: in part_005 a reply longer than the total limit is posted as its
\* first (limit - margin) characters followed by the notice, a reply within
\* the limit is posted unchanged, and the posted text is never longer than
\* the total limit.
C11_Truncation ==
    (formatter = "blocks" /\ fpc = "done") =>
       /\ Len(sent) = 1
       /\ Len(sent[1].text) <= SLACK_TEXT_LIMIT
       /\ Len(result) <= SLACK_TEXT_LIMIT => sent[1].text = result
       /\ Len(result) > SLACK_TEXT_LIMIT =>
             sent[1].text =
                SubSeq(result, 1, SLACK_TEXT_LIMIT - TruncationMargin)
                   \o TruncationNotice

\* a reply longer than the total limit was posted
C11_Witness ==
    /\ formatter = "blocks" /\ fpc = "done"
    /\ Len(result) > SLACK_TEXT_LIMIT
    /\ sent[1].text # result

\* C12: the messages of a split reply reach the thread in chunk order, at
\* most one post is under way and it is the post of the chunk after the
\* last one delivered; the blocks of a one-message reply are in text order.
C12_OrderPreserved ==
    /\ (formatter = "messages" /\ fpc \in {"send", "failed", "done"}
           /\ Len(result) > SLACK_CHAR_LIMIT) =>
          /\ \A k \in 1..Len(sent) :
                sent[k].text = ContinuedPrefix(k, Len(chunks)) \o chunks[k]
          /\ \A k \in pending : pending = {k} /\ Len(sent) = k - 1
    /\ (formatter = "blocks" /\ fpc = "done") =>
          \A k \in 1..Len(sent[1].blocks) :
             sent[1].blocks[k] =
                SubSeq(sent[1].text, (k - 1) * SECTION_BLOCK_LIMIT + 1,
                       Min(k * SECTION_BLOCK_LIMIT, Len(sent[1].text)))

\* the first chunk is in the thread and the post of the second is under way
C12_Witness ==
    /\ formatter = "messages" /\ fpc = "send"
    /\ Len(sent) = 1
    /\ pending = {2}

\* C13: every makeEdits call of a canvasEditorAgent run refers only to
\* section ids that a sectionLookup call earlier in the same run returned.
C13_LookupBeforeEdit ==
    \A k \in 2..Len(frames) :
       frames[k].tool = "makeEdits" =>
          frames[k].ids \subseteq frames[k - 1].ids

\* C14: an event written by a bot (bot_id or bot_profile set) never gets
\* generateResponse called, a message posted or a status shown, in either
\* handler.
C14_BotEventsIgnored ==
    event \in {"bot_id", "bot_profile"} =>
       /\ gpc = "idle"
       /\ stepCount = 0
       /\ posted = {}
       /\ lastStatus = ""
       /\ hpc \in {"received", "ignored"}

\* a handler has returned on an event that carries a bot profile
C14_Witness ==
    /\ event = "bot_profile"
    /\ hpc = "ignored"

(***************************************************************************)
(* Claims about deduplication and the search fan-out                       *)
(***************************************************************************)
RECURSIVE IsSubsequence(_, _)
IsSubsequence(a, b) ==
    IF a = <<>> THEN TRUE
    ELSE IF b = <<>> THEN FALSE
    ELSE IF Head(a) = Head(b) THEN IsSubsequence(Tail(a), Tail(b))
    ELSE IsSubsequence(a, Tail(b))

Unparseable(list) == {k \in 1..Len(list) : list[k].kind = "invalid"}

\* C15: the result of deduplicateByDomainAndUrl is a subsequence of the
\* input, no two of its parseable items have the same hostname and path,
\* every unparseable item is still there, and a second application changes
\* nothing.
C15_Dedup ==
    dpc \in {"once", "twice"} =>
       /\ IsSubsequence(deduped, items)
       /\ \A a, b \in 1..Len(deduped) :
             (a < b /\ deduped[a].kind # "invalid"
                    /\ deduped[b].kind # "invalid") =>
                <<deduped[a].host, deduped[a].path>> #
                   <<deduped[b].host, deduped[b].path>>
       /\ Cardinality(Unparseable(deduped)) = Cardinality(Unparseable(items))
       /\ dpc = "twice" => again = deduped

\* the list held two URLs that differ in the query string only and one
\* string that is no URL: the first of the two and the non-URL are kept
C15_Witness ==
    /\ dpc = "twice"
    /\ Len(items) = 3
    /\ Len(deduped) = 2
    /\ \E a, b \in 1..Len(items) :
          /\ a < b
          /\ items[a].kind = "special" /\ items[b].kind = "special"
          /\ items[a].rest # items[b].rest
          /\ KeyOf(items[a]) = KeyOf(items[b])
    /\ Cardinality(Unparseable(deduped)) = 1

(***************************************************************************)
(* More claims about the orchestration (Spec)                              *)
(***************************************************************************)
\* the execute of frame f has made no request to a remote API so far
NoRemoteYet(f) ==
    \A j \in 1..(f.pc - 1) :
       Program(f.tool)[j].op \notin {"fetch", "sdk", "session"}

\* a registry tool invoked without its credential returns
ReturnsWithoutCredential ==
    /\ gpc = "tool" /\ gpc' = "toolReturned"
    /\ Len(frames) = 1
    /\ ~frames[1].cred

C18_OptionsInjected ==
    (frames # <<>> /\ caller = "mention" /\ updateStatus # "absent") =>
       /\ ToolHasReporter
       /\ ToolHasContext

\* the entries of the collection that sub-query q added, in order
RECURSIVE EntriesOf(_, _)
EntriesOf(list, q) ==
    IF list = <<>> THEN <<>>
    ELSE IF Head(list).query = q
         THEN <<Head(list).url>> \o EntriesOf(Tail(list), q)
         ELSE EntriesOf(Tail(list), q)

\* C19: the collection jinaSearch builds over its sub-queries never holds
\* two entries with the same hostname and path.
C19_AggregateDeduplicated ==
    \A a, b \in 1..Len(allSearchResults) :
       (a < b /\ allSearchResults[a].url.kind # "invalid"
              /\ allSearchResults[b].url.kind # "invalid") =>
          <<allSearchResults[a].url.host, allSearchResults[a].url.path>> #
             <<allSearchResults[b].url.host, allSearchResults[b].url.path>>

\* C20: a sub-query that failed has added nothing and carries its own error
\* note; every sub-query that succeeded has its results in the collection
\* whatever the others did; the join is reached with all sub-queries settled.
C20_FanOutIsolation ==
    /\ \A q \in finished :
          IF responses[q].outcome = "ok"
          THEN /\ notes[q].error = ""
               /\ EntriesOf(allSearchResults, q) =
                     deduplicateByDomainAndUrl(responses[q].data)
          ELSE /\ notes[q].error \notin {"", "pending"}
               /\ notes[q].resultCount = 0
               /\ EntriesOf(allSearchResults, q) = <<>>
    /\ \A q \in Queries \ finished : EntriesOf(allSearchResults, q) = <<>>
    /\ spc \in {"joined", "selecting", "content"} => finished = Queries

\* one sub-query failed with a body that reports failure but carries data,
\* another one succeeded, and the tool returned its results
C20_Witness ==
    /\ spc = "returned"
    /\ searchResult = Success
    /\ \E q \in Queries :
          /\ responses[q].outcome = "bodyFail"
          /\ responses[q].data # <<>>
    /\ \E q \in Queries :
          /\ responses[q].outcome = "ok"
          /\ EntriesOf(allSearchResults, q) # <<>>

\* C21: with a reporter that does not throw, once the content callbacks of
\* jinaSearch were started and the tool has returned, it has returned
\* results: one entry per selected index, each with its content or with a
\* failure note, and no top-level error although results were collected.
C21_ContentIsolation ==
    (spc = "returned" /\ contents # <<>> /\ searchReporter # "throwing") =>
       /\ searchResult = Success
       /\ Len(resultsWithContent) = Len(selectedIndices)
       /\ \A k \in DOMAIN resultsWithContent :
             resultsWithContent[k] \in {"content", "annotated"}

\* C22: in jinaSearch the selection is requested only when every sub-query
\* has settled, the tool returns only when every content callback has
\* settled, and the collection does not change once the fan-out is joined.
C22_ForkJoin ==
    [][/\ spc' \in {"selecting", "content"} => finished' = Queries
       /\ spc' = "returned" =>
             \A k \in DOMAIN contents' : contents'[k] # "pending"
       /\ spc \notin {"start", "generating", "fanout"} =>
             allSearchResults' = allSearchResults]_vars

\* the statuses of the log, in order
RECURSIVE StatusesOf(_)
StatusesOf(l) ==
    IF l = <<>> THEN <<>>
    ELSE IF Head(l).kind = "status"
         THEN <<Head(l).phase>> \o StatusesOf(Tail(l))
         ELSE StatusesOf(Tail(l))

SearchPhases ==
    <<"generating", "executing", "selecting", "retrieving", "compiling">>

\* C23: on a run of jinaSearch with a reporter, the statuses emitted so far
\* are the first phases of generating, executing, selecting, retrieving,
\* compiling, each once and in this order, and every remote call in the log
\* comes after the status of its phase.
C23_PhaseStatusOrder ==
    searchReporter # "absent" =>
       /\ LET st == StatusesOf(searchLog)
          IN  /\ Len(st) <= Len(SearchPhases)
              /\ st = SubSeq(SearchPhases, 1, Len(st))
       /\ \A k \in DOMAIN searchLog :
             searchLog[k].kind = "call" =>
                \E j \in 1..(k - 1) :
                   searchLog[j] = Statused(searchLog[k].phase)

\* a run with a working reporter went through all five phases, with content
\* requests in the fourth, and returned its results
C23_Witness ==
    /\ searchReporter = "working"
    /\ spc = "returned"
    /\ searchResult = Success
    /\ StatusesOf(searchLog) = SearchPhases
    /\ Called("retrieving") \in {searchLog[k] : k \in DOMAIN searchLog}

\* C24: with a working reporter, the end of a step that produced a tool
\* result emits "is finalizing response..." before the next step or the
\* return, and the end of a step without tool results emits nothing.
C24_StepCompletionHook ==
    [][(gpc = "stepFinish" /\ updateStatus = "working") =>
          IF stepResults > 0
          THEN lastStatus' = "is finalizing response..."
          ELSE lastStatus' = lastStatus]_vars

\* the canvas editor's execute is the bottom frame
AgentRuns == frames # <<>> /\ frames[1].tool = "canvasEditorAgent"

\* C25: the nested session of canvasEditorAgent calls only sectionLookup and
\* makeEdits and runs at most 8 steps; an error of a lookup or an edit
\* leaves the session running; with the budget used the execute returns a
\* success payload; whatever happens it returns a payload or an error-shaped
\* value, never a raised fault; and every call comes to its return.
C25_NestedSession ==
    /\ [](/\ nestedSteps <= 8
          /\ AgentRuns /\ Program("canvasEditorAgent")[frames[1].pc].op = "session"
                => \A k \in 2..Len(frames) :
                      frames[k].tool \in {"sectionLookup", "makeEdits"})
    /\ [][AgentRuns =>
            /\ (Len(frames) = 2 /\ Len(frames') = 1
                  /\ frames[2].tool \in {"sectionLookup", "makeEdits"})
                  => frames'[1].pc = frames[1].pc
            /\ frames' = <<>> => toolResult'.kind \in {"ok", "error"}
            /\ (frames' = <<>> /\ nestedSteps = 8) => toolResult' = Success]_vars
    /\ <>(gpc = "toolReturned")

\* the nested session has used its eight steps, the last of them a makeEdits
\* that came back, and the execute is about to return
C25_Witness ==
    /\ Len(frames) = 1
    /\ AgentRuns
    /\ nestedSteps = 8
    /\ TopInstr.op = "return"

\* C26: canvasEditorAgent calls canvasRead at one place only, before its
\* nested session, and passes it once; when the read came back with an
\* error the execute returns an error-shaped value at once, and the nested
\* session and its two tools run only after a read that succeeded.
C26_SnapshotFirst ==
    /\ [](AgentRuns =>
            /\ \A k \in 2..Len(frames) :
                  frames[k].tool = "canvasRead" =>
                     k = 2 /\ Program("canvasEditorAgent")[frames[1].pc].op = "sub"
            /\ (nestedSteps > 0 \/ Len(frames) > 1
                  \/ Program("canvasEditorAgent")[frames[1].pc].op = "session")
                 => \/ Program("canvasEditorAgent")[frames[1].pc].op = "sub"
                    \/ frames[1].pc > 2 /\ frames[1].resp = "ok")
    /\ [][AgentRuns =>
            /\ frames' # <<>> => frames'[1].pc >= frames[1].pc
            /\ (Len(frames) = 1 /\ TopInstr.op = "subcheck"
                  /\ Top.resp = "error")
                 => /\ frames' = <<>>
                    /\ toolResult' = Catch(Top.cause)
                    /\ nestedSteps' = 0]_vars

\* the snapshot read found no Slack token, and canvasEditorAgent returned
\* that error without a step of its nested session
C26_Witness ==
    /\ gpc = "toolReturned"
    /\ toolResult = Catch(MissingCredential)
    /\ frames = <<>>
    /\ nestedSteps = 0

\* C27: when the handler issues the final status clear, no post of the reply
\* is under way and the delivery code has come to its end.
C27_ClearAfterPosts ==
    [][(~cleared /\ cleared') => (pending = {} /\ fpc = "done")]_vars

\* C29: every message sendSplitMessages has posted, with its "(continued
\* i/n)" prefix, has a text of at most the single-block limit.
C29_SplitMessagesWithinLimit ==
    formatter = "messages" =>
       \A k \in DOMAIN sent : Len(sent[k].text) <= SLACK_CHAR_LIMIT

\* C30: for every text and every maxChunkSize of at least 1 smaller than the
\* text, findBreakPoint returns at least 1 and the text left for the next
\* iteration is strictly shorter; so is the remaining text of every
\* iteration the loop of splitTextIntoChunks runs.
C30_SplitTerminates ==
    /\ fpc = "start" =>
          \A limit \in 1..MaxLen :
             Len(result) > limit =>
                /\ findBreakPoint(result, limit) >= 1
                /\ Len(RestOf(result, limit)) < Len(result)
    /\ (fpc = "split" /\ Len(remainingText) > SLACK_CHAR_LIMIT) =>
          /\ findBreakPoint(remainingText, SLACK_CHAR_LIMIT) >= 1
          /\ Len(RestOf(remainingText, SLACK_CHAR_LIMIT)) < Len(remainingText)

\* the loop has pushed a chunk of a text without any natural break point
\* and is left with a shorter, non-empty text
C30_Witness ==
    /\ fpc = "split"
    /\ Len(chunks) = 1
    /\ Len(remainingText) > 0
    /\ Len(remainingText) < Len(result)
    /\ \A k \in DOMAIN result : result[k] = "a"

\* C28: withRetry calls fn at most maxRetries times and every call but the
\* last one made has failed; it returns the value of the first call that
\* succeeds; it throws, after maxRetries failures, the error of the last
\* call; the waits are delay, 2*delay, 4*delay, ..., one after every failed
\* call except the one of the last attempt.
C28_WithRetry ==
    LET n == Len(wCalls)
        waited == {k \in 1..n : wCalls[k].kind = "error"
                                   /\ k < wArgs.maxRetries}
    IN  /\ n <= wArgs.maxRetries
        /\ \A k \in 1..(n - 1) : wCalls[k].kind = "error"
        /\ wpc = "returned" =>
              /\ wCalls[n].kind = "value"
              /\ wResult = wCalls[n]
        /\ wpc = "thrown" =>
              /\ n = wArgs.maxRetries
              /\ \A k \in 1..n : wCalls[k].kind = "error"
              /\ n > 0 => wResult = wCalls[n]
        /\ wWaits = [k \in 1..Len(wWaits) |-> wArgs.delay * 2^(k - 1)]
        /\ Len(wWaits) = IF wpc = "wait" THEN Cardinality(waited) - 1
                         ELSE Cardinality(waited)

\* three attempts failed with different errors, two waits lie between them
\* and the last error was thrown
C28_Witness ==
    /\ wpc = "thrown"
    /\ wArgs.maxRetries = 3
    /\ Len(wWaits) = 2
    /\ wCalls[2] # wCalls[3]
    /\ wResult = wCalls[3]

====
